---- MODULE Spec2Model ----
(***************************************************************************)
(* Model of the shim lock protocol binding, uefi/src/proto/shim/mod.rs.    *)
(*                                                                         *)
(* ShimLock is a table of three firmware function pointers (verify, hash,  *)
(* context).  The two wrappers ShimLock::verify and ShimLock::hash convert *)
(* the buffer length to u32, call into the firmware and translate the      *)
(* returned Status into a Result.  Every firmware call is one step of the  *)
(* model, so the order of the calls made by one wrapper call is visible.   *)
(***************************************************************************)
EXTENDS Integers, Sequences, FiniteSets

\* ------------------------------------------------------------------------
\* Bounds of the model
\* ------------------------------------------------------------------------

\* Number of wrapper calls made on the protocol instance in one behaviour.
MaxCalls == 3

\* Byte length of the small buffer (the 10-byte buffer of the scenarios).
SmallLen == 10

\* ------------------------------------------------------------------------
\* Program constants
\* ------------------------------------------------------------------------

\* Width of the firmware's size parameter (size: u32).
U32Bits == 32

\* Width of usize, the type of buffer.len(), on the 64-bit targets.
UsizeBits == 64

\* Unsigned integers are kept at their full width as little-endian
\* sequences of 16-bit limbs: a u32 has two limbs, a usize has four.
LimbBase == 2^16

LimbMax == LimbBase - 1

U32Limbs == U32Bits \div 16

UsizeLimbs == UsizeBits \div 16

\* u32::MAX
U32Max == [i \in 1..U32Limbs |-> LimbMax]

\* 0u32
U32Zero == [i \in 1..U32Limbs |-> 0]

\* The low 32 bits of a usize.
Low32(n) == SubSeq(n, 1, U32Limbs)

\* A u32 zero-extended to usize (u32 as usize).
Widen(s) == s \o [i \in 1..(UsizeLimbs - U32Limbs) |-> 0]

\* The usize value fits in 32 bits.
FitsU32(n) == \A i \in (U32Limbs + 1)..UsizeLimbs : n[i] = 0

SHA1_DIGEST_SIZE == 20

SHA256_DIGEST_SIZE == 32

\* ------------------------------------------------------------------------
\* Status and Result
\* ------------------------------------------------------------------------

\* Status codes the firmware functions return in the model: success, a
\* warning (non-success, high bit clear) and two error codes.
FwStatus == {"SUCCESS", "WARN_UNKNOWN_GLYPH", "SECURITY_VIOLATION", "BAD_BUFFER_SIZE"}

\* uefi::Result<()> : Ok(()) or Err(Error { status }).
Ok == [ok |-> TRUE, status |-> "SUCCESS"]

Err(s) == [ok |-> FALSE, status |-> s]

\* No call has returned yet.
NoResult == [ok |-> FALSE, status |-> "none"]

\* StatusExt::to_result: success becomes Ok(()), every other status becomes
\* an error carrying that status.
to_result(s) == IF s = "SUCCESS" THEN Ok ELSE Err(s)

\* usize -> u32 with `as` (wraps modulo 2^32, never fails).
TryIntoU32_AsTruncatingCast(n) == [ok |-> TRUE, val |-> Low32(n)]

\* usize -> u32 with an off-by-one range check (rejects u32::MAX itself).
TryIntoU32_AsStrictBound(n) ==
    IF FitsU32(n) /\ Low32(n) # U32Max
    THEN [ok |-> TRUE, val |-> Low32(n)]
    ELSE [ok |-> FALSE, val |-> U32Zero]

\* buffer.len().try_into() : u32::try_from(usize), fails iff the value does
\* not fit in 32 bits.
TryIntoU32(n) ==
    IF FitsU32(n)
    THEN [ok |-> TRUE, val |-> Low32(n)]
    ELSE [ok |-> FALSE, val |-> U32Zero]

\* ------------------------------------------------------------------------
\* Buffers, contexts, digests
\* ------------------------------------------------------------------------

\* The caller's byte slices (address, length), with lengths SmallLen,
\* 2^32 - 1, 2^32 and 2^32 + SmallLen.  The second and third start at the
\* same address; the third and fourth do not fit a u32.
Buffers ==
    { [ptr |-> 1, len |-> <<SmallLen, 0, 0, 0>>],
      [ptr |-> 2, len |-> <<LimbMax, LimbMax, 0, 0>>],
      [ptr |-> 2, len |-> <<0, 0, 1, 0>>],
      [ptr |-> 3, len |-> <<SmallLen, 0, 1, 0>>] }

NoBuffer == [ptr |-> 0, len |-> <<0, 0, 0, 0>>]

\* (address, 32-bit size) pairs a firmware function can be handed.
FwArgs == { <<b.ptr, Low32(b.len)>> : b \in Buffers }

\* Context storage that holds no context any firmware call populated.
Uninit == [init |-> FALSE, ptr |-> 0, size |-> U32Zero, call |-> 0]

\* MaybeUninit::<Context>::uninit(): the content of the new storage is
\* indeterminate.  The storage is a stack local whose address depends on
\* the caller's frame, so it holds no populated context or the bytes that
\* the context storage of any earlier hash call left on the stack.
UninitContents(left) == {Uninit} \cup left

\* The context as the firmware's context function populates it for the
\* image (p, s) during wrapper call number c.
Populated(p, s, c) == [init |-> TRUE, ptr |-> p, size |-> s, call |-> c]

\* n sequential bytes starting at base (u8 arithmetic).
Sequential(base, n) == [i \in 1..n |-> (base + i - 1) % 256]

\* First bytes of the digests the firmware's hash function can produce.
DigestBases == {1, 250}

Digests ==
    { [sha256 |-> Sequential(b, SHA256_DIGEST_SIZE),
       sha1   |-> Sequential(b, SHA1_DIGEST_SIZE)] : b \in DigestBases }

\* A Hashes value as the caller creates it.
EmptyHashes ==
    [sha256 |-> [i \in 1..SHA256_DIGEST_SIZE |-> 0],
     sha1   |-> [i \in 1..SHA1_DIGEST_SIZE |-> 0]]

\* Deterministic firmware verify functions: constant ones and ones whose
\* answer depends on the image.
VerifyMocks ==
    { [a \in FwArgs |-> s] : s \in FwStatus }
    \cup { [a \in FwArgs |-> IF a[2] = <<SmallLen, 0>> THEN "SUCCESS" ELSE "SECURITY_VIOLATION"],
           [a \in FwArgs |-> IF a[1] = 1 THEN "WARN_UNKNOWN_GLYPH" ELSE "SUCCESS"] }

\* ------------------------------------------------------------------------
\* State
\* ------------------------------------------------------------------------

VARIABLES
    fwVerify,     \* the function behind ShimLock.verify (deterministic)
    pc,           \* position of the caller / the running wrapper
    op,           \* wrapper that is running: "verify", "hash" or "none"
    buffer,       \* the `buffer` argument of the running call
    size,         \* the local `size: u32`
    context,      \* content of the local `context` storage of hash
    storage,      \* the storage object `context` is: the number of the
                  \* wrapper call that created it, 0 when there is none
    stale,        \* contents that the context storages of earlier hash
                  \* calls left in stack memory
    hashes,       \* the caller's Hashes value
    result,       \* the Result most recently returned to the caller
    fwLog,        \* firmware calls made by the running wrapper call
    calls,        \* number of wrapper calls started so far
    entryHashes,  \* the caller's Hashes value when the running call began
    prevVerify    \* buffer and result of the last completed verify call

vars == <<fwVerify, pc, op, buffer, size, context, storage, stale, hashes, result,
          fwLog, calls, entryHashes, prevVerify>>

\* One firmware call: which function, its arguments, the context storage
\* object it was handed (0: none), the content of that storage on entry and
\* the content it left there, the status it returned and the Hashes memory
\* as it left it.
FwCall(fn, p, s, sto, ctx, ctxOut, st, out) ==
    [fn |-> fn, ptr |-> p, size |-> s, store |-> sto, ctx |-> ctx,
     ctxOut |-> ctxOut, status |-> st, out |-> out]

\* What the firmware's hash function may leave in the output fields,
\* whatever status it returns: nothing, only sha256, only sha1, or both.
FwHashWrites(h) ==
    {h}
    \cup { [h EXCEPT !.sha256 = d.sha256] : d \in Digests }
    \cup { [h EXCEPT !.sha1 = d.sha1] : d \in Digests }
    \cup Digests

\* What the firmware's context function may leave in the context storage:
\* the parsed image (p, s) of wrapper call c, or the storage as it found
\* it.  The function is foreign code behind a pointer and the wrapper never
\* inspects the storage, so the source ties the content to no status.
FwContextWrites(ctx, p, s, c) == {ctx, Populated(p, s, c)}

Init ==
    /\ fwVerify \in VerifyMocks
    /\ pc = "idle"
    /\ op = "none"
    /\ buffer = NoBuffer
    /\ size = U32Zero
    /\ context = Uninit
    /\ storage = 0
    /\ stale = {}
    /\ hashes = EmptyHashes
    /\ result = NoResult
    /\ fwLog = <<>>
    /\ calls = 0
    /\ entryHashes = EmptyHashes
    /\ prevVerify = [buffer |-> NoBuffer, result |-> NoResult]

\* ------------------------------------------------------------------------
\* ShimLock::verify
\* ------------------------------------------------------------------------

\* The caller invokes verify(buffer).
CallVerify(b) ==
    /\ pc = "idle"
    /\ calls < MaxCalls
    /\ calls' = calls + 1
    /\ op' = "verify"
    /\ buffer' = b
    /\ size' = U32Zero
    /\ fwLog' = <<>>
    /\ entryHashes' = hashes
    /\ pc' = "verify_size"
    /\ UNCHANGED <<fwVerify, storage, stale, context, hashes, result, prevVerify>>

\* let size: u32 = buffer.len().try_into().map_err(BAD_BUFFER_SIZE)?;
VerifySize ==
    /\ pc = "verify_size"
    /\ LET c == TryIntoU32(buffer.len) IN
         IF c.ok
         THEN /\ size' = c.val
              /\ pc' = "verify_call"
              /\ UNCHANGED result
         ELSE /\ result' = Err("BAD_BUFFER_SIZE")
              /\ pc' = "done"
              /\ UNCHANGED size
    /\ UNCHANGED <<fwVerify, storage, stale, op, buffer, context, hashes, fwLog, calls,
                   entryHashes, prevVerify>>

\* verify that reports every firmware failure as BAD_BUFFER_SIZE.
VerifyCall_AsFixedError ==
    /\ pc = "verify_call"
    /\ LET st == fwVerify[<<buffer.ptr, size>>] IN
         /\ fwLog' = Append(fwLog, FwCall("verify", buffer.ptr, size, 0, Uninit, Uninit, st, hashes))
         /\ result' = IF st = "SUCCESS" THEN Ok ELSE Err("BAD_BUFFER_SIZE")
    /\ pc' = "done"
    /\ UNCHANGED <<fwVerify, storage, stale, op, buffer, size, context, hashes, calls,
                   entryHashes, prevVerify>>

\* verify that keeps an error once one has been returned.
VerifyCall_AsStickyError ==
    /\ pc = "verify_call"
    /\ LET st == fwVerify[<<buffer.ptr, size>>] IN
         /\ fwLog' = Append(fwLog, FwCall("verify", buffer.ptr, size, 0, Uninit, Uninit, st, hashes))
         /\ result' = IF result.ok \/ result = NoResult THEN to_result(st) ELSE result
    /\ pc' = "done"
    /\ UNCHANGED <<fwVerify, storage, stale, op, buffer, size, context, hashes, calls,
                   entryHashes, prevVerify>>

\* (self.verify)(buffer.as_ptr(), size).to_result()
VerifyCall ==
    /\ pc = "verify_call"
    /\ LET st == fwVerify[<<buffer.ptr, size>>] IN
         /\ fwLog' = Append(fwLog, FwCall("verify", buffer.ptr, size, 0, Uninit, Uninit, st, hashes))
         /\ result' = to_result(st)
    /\ pc' = "done"
    /\ UNCHANGED <<fwVerify, storage, stale, op, buffer, size, context, hashes, calls,
                   entryHashes, prevVerify>>

\* ------------------------------------------------------------------------
\* ShimLock::hash
\* ------------------------------------------------------------------------

\* The caller invokes hash(buffer, &mut hashes).
CallHash(b) ==
    /\ pc = "idle"
    /\ calls < MaxCalls
    /\ calls' = calls + 1
    /\ op' = "hash"
    /\ buffer' = b
    /\ size' = U32Zero
    /\ fwLog' = <<>>
    /\ entryHashes' = hashes
    /\ pc' = "hash_size"
    /\ UNCHANGED <<fwVerify, storage, stale, context, hashes, result, prevVerify>>

\* hash that keeps its context storage between calls: once an earlier call
\* has left a context behind, that storage is used again instead of a new
\* one.
HashSize_AsPersistentContext ==
    /\ pc = "hash_size"
    /\ LET c == TryIntoU32(buffer.len) IN
         IF c.ok
         THEN /\ size' = c.val
              /\ IF stale = {}
                 THEN /\ storage' = calls
                      /\ context' = Uninit
                 ELSE \E old \in stale :
                        /\ storage' = old.call
                        /\ context' = old
              /\ pc' = "hash_context"
              /\ UNCHANGED result
         ELSE /\ result' = Err("BAD_BUFFER_SIZE")
              /\ pc' = "done"
              /\ UNCHANGED <<size, context, storage>>
    /\ UNCHANGED <<fwVerify, stale, op, buffer, hashes, fwLog, calls, entryHashes,
                   prevVerify>>

\* hash that clears the caller's output before doing anything else.
HashSize_AsClearingOutput ==
    /\ pc = "hash_size"
    /\ hashes' = EmptyHashes
    /\ LET c == TryIntoU32(buffer.len) IN
         IF c.ok
         THEN /\ size' = c.val
              /\ storage' = calls
              /\ context' \in UninitContents(stale)
              /\ pc' = "hash_context"
              /\ UNCHANGED result
         ELSE /\ result' = Err("BAD_BUFFER_SIZE")
              /\ pc' = "done"
              /\ UNCHANGED <<size, context, storage>>
    /\ UNCHANGED <<fwVerify, stale, op, buffer, fwLog, calls, entryHashes, prevVerify>>

\* let ptr = buffer.as_ptr();
\* let size: u32 = buffer.len().try_into().map_err(BAD_BUFFER_SIZE)?;
\* let mut context = MaybeUninit::<Context>::uninit();
HashSize ==
    /\ pc = "hash_size"
    /\ LET c == TryIntoU32(buffer.len) IN
         IF c.ok
         THEN /\ size' = c.val
              /\ storage' = calls
              /\ context' \in UninitContents(stale)
              /\ pc' = "hash_context"
              /\ UNCHANGED result
         ELSE /\ result' = Err("BAD_BUFFER_SIZE")
              /\ pc' = "done"
              /\ UNCHANGED <<size, context, storage>>
    /\ UNCHANGED <<fwVerify, stale, op, buffer, hashes, fwLog, calls, entryHashes,
                   prevVerify>>

\* hash that goes on to the hash phase whatever the context call returned.
HashContext_AsIgnoringStatus ==
    /\ pc = "hash_context"
    /\ \E st \in FwStatus :
         /\ context' \in FwContextWrites(context, buffer.ptr, size, calls)
         /\ fwLog' = Append(fwLog, FwCall("context", buffer.ptr, size, storage,
                                          context, context', st, hashes))
         /\ pc' = "hash_call"
         /\ UNCHANGED result
    /\ UNCHANGED <<fwVerify, storage, stale, op, buffer, size, hashes, calls, entryHashes,
                   prevVerify>>

\* hash that calls the context function a second time when it failed.
HashContext_AsRetryOnce ==
    /\ pc = "hash_context"
    /\ \E st \in FwStatus :
         /\ context' \in FwContextWrites(context, buffer.ptr, size, calls)
         /\ fwLog' = Append(fwLog, FwCall("context", buffer.ptr, size, storage,
                                          context, context', st, hashes))
         /\ IF st = "SUCCESS"
            THEN /\ pc' = "hash_call"
                 /\ UNCHANGED result
            ELSE IF fwLog = <<>>
            THEN /\ pc' = "hash_context"
                 /\ UNCHANGED result
            ELSE /\ result' = to_result(st)
                 /\ pc' = "done"
    /\ UNCHANGED <<fwVerify, storage, stale, op, buffer, size, hashes, calls, entryHashes,
                   prevVerify>>

\* (self.context)(ptr, size, context.as_mut_ptr()).to_result()?;
HashContext ==
    /\ pc = "hash_context"
    /\ \E st \in FwStatus :
         /\ context' \in FwContextWrites(context, buffer.ptr, size, calls)
         /\ fwLog' = Append(fwLog, FwCall("context", buffer.ptr, size, storage,
                                          context, context', st, hashes))
         /\ IF to_result(st).ok
            THEN /\ pc' = "hash_call"
                 /\ UNCHANGED result
            ELSE /\ result' = to_result(st)
                 /\ pc' = "done"
    /\ UNCHANGED <<fwVerify, storage, stale, op, buffer, size, hashes, calls, entryHashes,
                   prevVerify>>

\* hash that hands the firmware a copy of the output instead of the
\* caller's fields.
HashCall_AsCopiedOutput ==
    /\ pc = "hash_call"
    /\ \E st \in FwStatus :
         \E out \in FwHashWrites(hashes) :
           /\ fwLog' = Append(fwLog, FwCall("hash", buffer.ptr, size, storage, context, context, st, out))
           /\ UNCHANGED hashes
           /\ result' = to_result(st)
    /\ pc' = "done"
    /\ UNCHANGED <<fwVerify, storage, stale, op, buffer, size, context, calls, entryHashes,
                   prevVerify>>

\* hash that drops the status of the hash phase.
HashCall_AsSwallowedStatus ==
    /\ pc = "hash_call"
    /\ \E st \in FwStatus :
         \E out \in FwHashWrites(hashes) :
           /\ fwLog' = Append(fwLog, FwCall("hash", buffer.ptr, size, storage, context, context, st, out))
           /\ hashes' = out
           /\ result' = Ok
    /\ pc' = "done"
    /\ UNCHANGED <<fwVerify, storage, stale, op, buffer, size, context, calls, entryHashes,
                   prevVerify>>

\* (self.hash)(ptr, size, context.as_mut_ptr(), &mut hashes.sha256,
\*             &mut hashes.sha1).to_result()
HashCall ==
    /\ pc = "hash_call"
    /\ \E st \in FwStatus :
         \E out \in FwHashWrites(hashes) :
           /\ fwLog' = Append(fwLog, FwCall("hash", buffer.ptr, size, storage, context, context, st, out))
           /\ hashes' = out
           /\ result' = to_result(st)
    /\ pc' = "done"
    /\ UNCHANGED <<fwVerify, storage, stale, op, buffer, size, context, calls, entryHashes,
                   prevVerify>>

\* The wrapper returns `result` to the caller; its locals go out of scope
\* and the bytes of the context storage stay behind in stack memory.
Return ==
    /\ pc = "done"
    /\ pc' = "idle"
    /\ prevVerify' = IF op = "verify"
                     THEN [buffer |-> buffer, result |-> result]
                     ELSE prevVerify
    /\ op' = "none"
    /\ buffer' = NoBuffer
    /\ size' = U32Zero
    /\ fwLog' = <<>>
    /\ entryHashes' = hashes
    /\ stale' = IF op = "hash" /\ fwLog # <<>> THEN stale \cup {context} ELSE stale
    /\ context' = Uninit
    /\ storage' = 0
    /\ UNCHANGED <<fwVerify, hashes, result, calls>>

Next ==
    \/ \E b \in Buffers : CallVerify(b)
    \/ VerifySize
    \/ VerifyCall
    \/ \E b \in Buffers : CallHash(b)
    \/ HashSize
    \/ HashContext
    \/ HashCall
    \/ Return

Spec == Init /\ [][Next]_vars

\* ------------------------------------------------------------------------
\* Properties
\* ------------------------------------------------------------------------

\* A wrapper call has run to its return statement.
Returned(o) == pc = "done" /\ op = o

\* The firmware calls of the running wrapper call that went to function fn.
CallsTo(fn) == { i \in 1..Len(fwLog) : fwLog[i].fn = fn }

\* C1: for a buffer whose length exceeds 2^32 - 1, verify and hash make no
\* firmware call at any point of the call and return the BAD_BUFFER_SIZE
\* error.
C1_TooLargeRejectedWithoutFirmware ==
    (op \in {"verify", "hash"} /\ ~FitsU32(buffer.len)) =>
        /\ fwLog = <<>>
        /\ pc \in {"verify_size", "hash_size", "done"}
        /\ (pc = "done" => result = Err("BAD_BUFFER_SIZE"))

C1_Witness ==
    /\ Returned("hash")
    /\ buffer.len = <<SmallLen, 0, 1, 0>>
    /\ result = Err("BAD_BUFFER_SIZE")
    /\ fwLog = <<>>

\* C2: within a hash call the firmware hash function is invoked (or about
\* to be invoked) only after the context function was invoked in the same
\* call and returned success; after a non-success context status the hash
\* function is not invoked.
C2_HashPhaseOnlyAfterContextSuccess ==
    op = "hash" =>
        /\ \A i \in CallsTo("hash") :
             \E j \in 1..(i - 1) :
               fwLog[j].fn = "context" /\ fwLog[j].status = "SUCCESS"
        /\ (pc = "hash_call") =>
             \E j \in CallsTo("context") : fwLog[j].status = "SUCCESS"
        /\ (\E j \in CallsTo("context") : fwLog[j].status # "SUCCESS") =>
             (CallsTo("hash") = {} /\ pc # "hash_call")

C2_Witness ==
    /\ Returned("hash")
    /\ Len(fwLog) = 1
    /\ fwLog[1].fn = "context"
    /\ fwLog[1].status = "SECURITY_VIOLATION"

\* C3: for a buffer that fits the size parameter, verify returns success
\* when the firmware verify function returned success and otherwise an
\* error carrying exactly the status the firmware returned.
C3_VerifyStatusRoundTrip ==
    (Returned("verify") /\ FitsU32(buffer.len)) =>
        /\ Len(fwLog) = 1
        /\ fwLog[1].fn = "verify"
        /\ fwLog[1].status = fwVerify[<<buffer.ptr, Low32(buffer.len)>>]
        /\ (fwLog[1].status = "SUCCESS" => result = Ok)
        /\ (fwLog[1].status # "SUCCESS" =>
              (~result.ok /\ result.status = fwLog[1].status))

C3_Witness ==
    /\ Returned("verify")
    /\ FitsU32(buffer.len)
    /\ fwLog # <<>>
    /\ fwLog[1].status = "WARN_UNKNOWN_GLYPH"
    /\ result = Err("WARN_UNKNOWN_GLYPH")

\* C4: when hash returns success the caller's Hashes value is exactly what
\* the firmware hash function wrote: 32 bytes of sha256 and 20 bytes of sha1.
C4_HashesAreFirmwareOutput ==
    (Returned("hash") /\ result.ok) =>
        /\ CallsTo("hash") = {Len(fwLog)}
        /\ hashes.sha256 = fwLog[Len(fwLog)].out.sha256
        /\ hashes.sha1 = fwLog[Len(fwLog)].out.sha1
        /\ Len(hashes.sha256) = SHA256_DIGEST_SIZE
        /\ Len(hashes.sha1) = SHA1_DIGEST_SIZE

C4_Witness ==
    /\ Returned("hash")
    /\ result.ok
    /\ hashes.sha256 = Sequential(250, SHA256_DIGEST_SIZE)
    /\ hashes.sha1 = Sequential(250, SHA1_DIGEST_SIZE)
    /\ entryHashes.sha256 = Sequential(1, SHA256_DIGEST_SIZE)

\* C5: for a buffer whose length is at most 2^32 - 1, verify invokes the
\* firmware verify function and hash the firmware context function; the
\* size handed to any firmware function is the exact length of the buffer
\* and the address is the buffer's.
C5_SizeArgumentIsExactLength ==
    /\ \A i \in 1..Len(fwLog) :
         /\ Widen(fwLog[i].size) = buffer.len
         /\ fwLog[i].ptr = buffer.ptr
    /\ (Returned("verify") /\ FitsU32(buffer.len)) =>
         (fwLog # <<>> /\ fwLog[1].fn = "verify")
    /\ (Returned("hash") /\ FitsU32(buffer.len)) =>
         (fwLog # <<>> /\ fwLog[1].fn = "context")

C5_Witness ==
    /\ Returned("verify")
    /\ buffer.len = Widen(U32Max)
    /\ Len(fwLog) = 1
    /\ fwLog[1].size = U32Max

\* The state of the hash call's state machine, read off the firmware calls
\* made so far and the result.
HashPhase ==
    IF (\E i \in 1..Len(fwLog) : fwLog[i].status # "SUCCESS")
       \/ (pc = "done" /\ ~result.ok)
    THEN "Failed"
    ELSE IF \E i \in CallsTo("hash") : fwLog[i].status = "SUCCESS"
    THEN "HashesComputed"
    ELSE IF \E i \in CallsTo("context") : fwLog[i].status = "SUCCESS"
    THEN "ContextBuilt"
    ELSE "Start"

PhaseSteps ==
    { <<"Start", "ContextBuilt">>, <<"Start", "Failed">>,
      <<"ContextBuilt", "HashesComputed">>, <<"ContextBuilt", "Failed">> }

C6_Step ==
    (op = "hash" /\ op' = "hash") =>
        /\ \/ /\ HashPhase' = HashPhase
              /\ fwLog' = fwLog
           \/ /\ <<HashPhase, HashPhase'>> \in PhaseSteps
              /\ Len(fwLog') <= Len(fwLog) + 1
        /\ Cardinality(CallsTo("context")') <= 1
        /\ Cardinality(CallsTo("hash")') <= 1
        /\ (HashPhase' \in {"Failed", "HashesComputed"}) => pc' = "done"

\* C6: every step of a hash call either leaves the phase and the firmware
\* calls as they are or moves Start -> ContextBuilt, Start -> Failed,
\* ContextBuilt -> HashesComputed or ContextBuilt -> Failed with at most one
\* firmware call; context and hash are each invoked at most once and in
\* Failed and HashesComputed the call is at its return.
C6_HashStateMachine == [][C6_Step]_vars

C6_Witness ==
    /\ Returned("hash")
    /\ Len(fwLog) = 2
    /\ fwLog[1].status = "SUCCESS"
    /\ fwLog[2].status = "BAD_BUFFER_SIZE"
    /\ HashPhase = "Failed"

\* C7: a verify call on the same buffer as the previous verify call on this
\* protocol instance returns the same result, whatever calls were made in
\* between.
C7_VerifyIdempotent ==
    (Returned("verify") /\ prevVerify.buffer = buffer) =>
        result = prevVerify.result

C7_Witness ==
    /\ Returned("verify")
    /\ prevVerify.buffer = buffer
    /\ result.ok
    /\ \E c \in stale : c.init /\ c.call = calls - 1

\* C8: for a buffer that fits the size parameter, hash returns success
\* exactly when the context call and the hash call both returned success,
\* and otherwise the error carrying the status of the first failing phase.
C8_HashReturnsFirstFailure ==
    (Returned("hash") /\ FitsU32(buffer.len)) =>
        LET failing == { i \in 1..Len(fwLog) : fwLog[i].status # "SUCCESS" } IN
        /\ result.ok <=>
             /\ \E i \in CallsTo("context") : fwLog[i].status = "SUCCESS"
             /\ \E i \in CallsTo("hash") : fwLog[i].status = "SUCCESS"
             /\ failing = {}
        /\ failing # {} =>
             LET first == CHOOSE i \in failing : \A j \in failing : i <= j IN
             result = Err(fwLog[first].status)

C8_Witness ==
    /\ Returned("hash")
    /\ Len(fwLog) = 2
    /\ fwLog[2].fn = "hash"
    /\ fwLog[2].status = "WARN_UNKNOWN_GLYPH"
    /\ result = Err("WARN_UNKNOWN_GLYPH")

\* C9: every context storage handed to a firmware function is the storage
\* object the running hash call created itself (never one of an earlier
\* call), and the wrapper puts nothing into it: on entry to the context
\* function it has the indeterminate content of new uninitialized storage.
\* The hash function is handed that same storage object, exactly as the
\* context function of the same call left it after returning success, and
\* both functions are given the buffer's address and size.
C9_ContextFreshPerCall ==
    /\ \A i \in 1..Len(fwLog) :
         /\ fwLog[i].fn = "verify" => fwLog[i].store = 0
         /\ fwLog[i].fn \in {"context", "hash"} => fwLog[i].store = calls
         /\ fwLog[i].fn = "context" => fwLog[i].ctx \in UninitContents(stale)
    /\ \A i \in CallsTo("hash") :
         \E j \in 1..(i - 1) :
           /\ fwLog[j].fn = "context"
           /\ fwLog[j].status = "SUCCESS"
           /\ fwLog[i].store = fwLog[j].store
           /\ fwLog[i].ctx = fwLog[j].ctxOut
           /\ fwLog[i].ptr = fwLog[j].ptr /\ fwLog[j].ptr = buffer.ptr
           /\ fwLog[i].size = fwLog[j].size /\ fwLog[j].size = Low32(buffer.len)
    /\ (pc \in {"hash_context", "hash_call"}) => storage = calls
    /\ (pc = "hash_call") =>
         (fwLog # <<>> /\ context = fwLog[Len(fwLog)].ctxOut)

\* A third call, after two hash calls that populated their contexts: the
\* context function populates new storage and the hash function gets it.
C9_Witness ==
    /\ Returned("hash")
    /\ calls = 3
    /\ \E c \in stale : c.init /\ c.call = 1
    /\ \E c \in stale : c.init /\ c.call = 2
    /\ Len(fwLog) = 2
    /\ fwLog[1].store = calls
    /\ fwLog[2].store = calls
    /\ fwLog[2].ctx = Populated(2, U32Max, calls)

\* C10: as long as a hash call has not invoked the firmware hash function,
\* and so when it fails on the buffer size or on the context call, the
\* caller's Hashes value is what it was when the call began.
C10_HashesUntouchedBeforeHashPhase ==
    (op = "hash" /\ CallsTo("hash") = {}) => hashes = entryHashes

C10_Witness ==
    /\ Returned("hash")
    /\ ~result.ok
    /\ CallsTo("hash") = {}
    /\ CallsTo("context") # {}
    /\ hashes # EmptyHashes

====
